---- MODULE Spec2Model ----
(***************************************************************************)
(* The dispatch engine of mokabench (src/src/lib.rs): run_multi_threads,   *)
(* run_multi_tasks and run_single.  A producer reads the trace `repeat`    *)
(* times, cuts                                                             *)
(* it into chunks of BATCH_SIZE lines, turns each chunk into a batch of    *)
(* Commands and sends the batch on an unbounded multi-consumer channel;    *)
(* it then drops the sender, spawns num_clients workers that drain the     *)
(* channel, joins them, merges their Reports and adds the eviction counts. *)
(* run_single collects the batches in a vector and processes them itself.  *)
(*                                                                         *)
(* load_gen::generate_commands, cache::process_commands, Report,           *)
(* ReportBuilder, Config and the cache drivers are modules of the          *)
(* repository whose code is not part of src/; they are modelled from       *)
(* spec.md (sections 3, 4.1, 4.2, 4.5, 4.6).                               *)
(***************************************************************************)
EXTENDS Integers, Sequences, FiniteSets, TLC

\* ------------------------------------------------------------ bounds

\* lib.rs:72 sets BATCH_SIZE to 200; the model scales it down so that a
\* trace of MaxLines lines is cut into several batches.
BATCH_SIZE == 2
\* lib.rs:391 yields every 10_000 batches; scaled down likewise.
YIELD_PERIOD == 2
MaxLines == 3
MaxRepeat == 2
MaxClients == 2
\* The runs modelled enqueue at most MaxBatches batches in all.
MaxBatches == 4
\* Capacity of the shared cache backend (an input of the driver's
\* constructor, lib.rs:86).
Capacity == 1

\* ------------------------------------------------------------ data

\* The Command kinds a trace line is turned into (enum Command, a subset).
Kinds == {"GetOrInsert", "Invalidate"}

\* The trace files: one of every length up to MaxLines, its lines
\* alternating between the two kinds.
Traces ==
    {[i \in 1 .. n |-> IF i % 2 = 1 THEN "GetOrInsert" ELSE "Invalidate"] :
        n \in 0 .. MaxLines}

\* config.repeat is an Option<usize>: <<>> is None, <<n>> is Some(n).
RepeatOpts == {<<>>} \cup {<<n>> : n \in 0 .. MaxRepeat}

\* The worker count of the concurrent mode run_single is compared with
\* (spec.md, end-to-end scenario: "the 4-worker concurrent mode").
FourClients == 4

Min(a, b) == IF a < b THEN a ELSE b

Max(a, b) == IF a < b THEN b ELSE a

\* The workers a run may spawn; run_single's one client is worker 1, run
\* by the calling thread.
LastWorker == Max(MaxClients, FourClients)

Workers == 1 .. LastWorker

VARIABLES
    mode,          \* "threads" (run_multi_threads), "tasks" (run_multi_tasks)
                   \* or "single" (run_single)
    trace,         \* the lines of config.trace_file
    repeat,        \* config.repeat
    num_clients,   \* num_clients (run_single: the Some(1) of lib.rs:265)
    pc,            \* the coordinator's position in the run function
    rep,           \* iterations of the repeat loop completed
    pos,           \* lines of the current repeat already consumed
    counter,       \* `counter` (lib.rs:303)
    queue,         \* the batches in the channel (run_single: all_commands)
    senderOpen,    \* `send` not yet dropped
    sent,          \* history: every batch sent, in send order
    spawned,       \* number of workers spawned so far
    wpc,           \* each worker's position
    cur,           \* `commands`: the batch a worker is processing
    idx,           \* commands of `cur` already executed
    count,         \* `count` of a worker task (lib.rs:384)
    wreport,       \* each worker's local Report (run_single: its `report`)
    log,           \* history: the commands each worker executed, in order
    received,      \* history: the batch ids each worker received, in order
    yields,        \* history: number of yield_now() calls of each worker
    cacheEntries,  \* entries in the shared cache backend
    evictions,     \* the process-wide EvictionCounters
    joined,        \* number of handles joined so far
    results,       \* `reports`: the joined workers' results
    report,        \* the final Report (a sequence: empty until built)
    instant,       \* `instant`: empty until Instant::now() has run
    listener,      \* what config.is_eviction_listener_enabled() returned
                   \* (empty until lib.rs:346 asks; nothing else reads it)
    snapshotAt     \* history: commands executed when the counters were read

vars == <<mode, trace, repeat, num_clients, pc, rep,
          pos, counter, queue, senderOpen, sent, spawned, wpc, cur, idx,
          count, wreport, log, received, yields, cacheEntries, evictions,
          joined, results, report, instant, listener, snapshotAt>>

cfgVars == <<mode, trace, repeat, num_clients>>
prodVars == <<rep, pos, counter, sent>>
workerVars == <<wpc, cur, idx, count, wreport, log, received, yields>>
cacheVars == <<cacheEntries, evictions>>
lateVars == <<listener, snapshotAt>>
coordVars == <<joined, results, report, instant, listener, snapshotAt>>

\* ------------------------------------------------------------ Report

\* ReportBuilder::build(): a fresh, zeroed accumulator.  duration and
\* eviction_count are Options, modelled as sequences of length <= 1.
Build ==
    [insert_count |-> 0, invalidation_count |-> 0,
     duration |-> <<>>, eviction_count |-> <<>>]

\* Report::merge(other): counts sum; the duration is not merged.
Merge(self, other) ==
    [self EXCEPT !.insert_count = @ + other.insert_count,
                 !.invalidation_count = @ + other.invalidation_count]

\* Report::add_eviction_counts(counters): adds the counters' values.
AddEvictionCounts(self, n) ==
    [self EXCEPT !.eviction_count =
        IF @ = <<>> THEN <<n>> ELSE <<@[1] + n>>]

\* The number of operations a Report has recorded.
OpCount(r) == r.insert_count + r.invalidation_count

\* The outcome of one command recorded into a worker's Report
\* (cache::process_commands, one command of the batch).
Record(r, cmd) ==
    IF cmd.kind = "GetOrInsert"
    THEN [r EXCEPT !.insert_count = @ + 1]
    ELSE [r EXCEPT !.invalidation_count = @ + 1]

\* The shared backend after one command: an insert into a full cache
\* evicts an entry, which the eviction listener counts.
EntriesAfter(cmd, n) ==
    IF cmd.kind = "GetOrInsert" THEN Min(n + 1, Capacity)
    ELSE IF n > 0 THEN n - 1 ELSE 0

EvictionsAfter(cmd, n, ev) ==
    IF cmd.kind = "GetOrInsert" /\ n >= Capacity THEN ev + 1 ELSE ev

\* ------------------------------------------------------------ producer

\* config.repeat.unwrap_or(1)
Repeat == IF repeat = <<>> THEN 1 ELSE repeat[1]

\* Mutant of ChunkLen: the chunks are one line longer than BATCH_SIZE.
ChunkLenOver(p) == Min(p + BATCH_SIZE + 1, Len(trace)) - p

\* The length of the chunk itertools' chunks(BATCH_SIZE) yields when p
\* lines of the file were consumed: BATCH_SIZE lines, or the rest.
ChunkLen(p) == Min(p + BATCH_SIZE, Len(trace)) - p

\* The number of chunks of one pass over the file: ceil(L / BATCH_SIZE).
ChunksPerRepeat == (Len(trace) + BATCH_SIZE - 1) \div BATCH_SIZE

\* load_gen::generate_commands: one Command per line of the chunk, in
\* order; the running counter advances once per line and is the sequence
\* index the Command observes.
GenerateCommands(p, c) ==
    [k \in 1 .. ChunkLen(p) |->
        [kind |-> trace[p + k], line |-> p + k - 1, seq |-> c + k - 1]]

CounterAfter(p, c) == c + ChunkLen(p)

\* Mutant of CounterAtRepeat: the counter is declared inside the repeat
\* loop, so every repeat starts again at 0.
CounterReset(c) == 0

\* `let mut counter = 0` (before the repeat loop) and the counter a new
\* iteration of the repeat loop starts with.
CounterAtRepeat(c) == c

\* ------------------------------------------------------------ channel

\* crossbeam_channel recv(): a batch when one is buffered, Err when the
\* channel is empty and every sender is dropped, else it blocks.
RecvReady == queue # <<>>

\* Mutant of RecvClosed: the receive fails as soon as the sender is
\* dropped, whatever the channel still holds.
RecvClosedEarly == ~senderOpen

RecvClosed == queue = <<>> /\ ~senderOpen

\* ------------------------------------------------------------ Init

\* The state when the run function is entered, for the given run
\* functions and worker counts.
InitWith(modes, clients) ==
    /\ mode \in modes
    /\ trace \in Traces
    /\ repeat \in RepeatOpts
    /\ num_clients \in IF mode = "single" THEN {1} ELSE clients
    /\ Repeat * ChunksPerRepeat <= MaxBatches
    /\ pc = "repeat"
    /\ rep = 0
    /\ pos = 0
    /\ counter = 0
    /\ queue = <<>>
    /\ senderOpen = TRUE
    /\ sent = <<>>
    /\ spawned = 0
    /\ wpc = [w \in Workers |-> "unspawned"]
    /\ cur = [w \in Workers |-> <<>>]
    /\ idx = [w \in Workers |-> 0]
    /\ count = [w \in Workers |-> 0]
    /\ wreport = [w \in Workers |-> Build]
    /\ log = [w \in Workers |-> <<>>]
    /\ received = [w \in Workers |-> <<>>]
    /\ yields = [w \in Workers |-> 0]
    /\ cacheEntries = 0
    /\ evictions = 0
    /\ joined = 0
    /\ results = <<>>
    /\ report = <<>>
    /\ instant = <<>>
    /\ listener = <<>>
    /\ snapshotAt = <<>>

Init == InitWith({"threads", "tasks", "single"}, 0 .. MaxClients)

\* ------------------------------------------------------------ producer

\* File::open succeeds: the chunk loop of this repeat starts.
OpenTrace ==
    /\ pc = "repeat"
    /\ rep < Repeat
    /\ pc' = "chunks"
    /\ pos' = 0
    /\ counter' = CounterAtRepeat(counter)
    /\ UNCHANGED <<cfgVars, rep, sent, queue, senderOpen, spawned, workerVars,
                   cacheVars, coordVars>>

\* File::open fails: `?` returns the error.
OpenFail ==
    /\ pc = "repeat"
    /\ rep < Repeat
    /\ pc' = "err"
    /\ UNCHANGED <<cfgVars, prodVars, queue, senderOpen, spawned, workerVars,
                   cacheVars, coordVars>>

\* send.send(commands): the channel is unbounded, so the send enqueues at
\* once; it fails only when every receiver is gone, and `receive` lives
\* until the function returns.  In run_single: all_commands.push(commands).
Send(batch) ==
    /\ queue' = Append(queue, batch)
    /\ sent' = Append(sent, batch)

\* One iteration of the chunk loop: generate the commands of the next
\* chunk and send them as one batch.
SendBatch ==
    /\ pc = "chunks"
    /\ pos < Len(trace)
    /\ Send([id |-> Len(sent) + 1, rep |-> rep,
             cmds |-> GenerateCommands(pos, counter)])
    /\ counter' = CounterAfter(pos, counter)
    /\ pos' = pos + ChunkLen(pos)
    /\ UNCHANGED <<cfgVars, pc, rep, senderOpen, spawned, workerVars,
                   cacheVars, coordVars>>

\* Mutant of GenerateFail: the chunk that cannot be generated is skipped
\* and the run goes on.
GenerateFailSkip ==
    /\ pc = "chunks"
    /\ pos < Len(trace)
    /\ pos' = pos + ChunkLen(pos)
    /\ UNCHANGED <<cfgVars, pc, rep, counter, sent, queue, senderOpen,
                   spawned, workerVars, cacheVars, coordVars>>

\* A line of the chunk cannot be read or parsed: generate_commands
\* returns the error and `?` returns it from the run.
GenerateFail ==
    /\ pc = "chunks"
    /\ pos < Len(trace)
    /\ pc' = "err"
    /\ UNCHANGED <<cfgVars, prodVars, queue, senderOpen, spawned, workerVars,
                   cacheVars, coordVars>>

\* Mutant of EndOfTrace: the chunk loop ends as soon as fewer than
\* BATCH_SIZE lines remain (chunks_exact instead of chunks).
EndOfTraceExact ==
    /\ pc = "chunks"
    /\ pos + BATCH_SIZE > Len(trace)
    /\ rep' = rep + 1
    /\ pc' = "repeat"
    /\ UNCHANGED <<cfgVars, pos, counter, sent, queue, senderOpen, spawned,
                   workerVars, cacheVars, coordVars>>

\* The reader is exhausted: the next iteration of the repeat loop.
EndOfTrace ==
    /\ pc = "chunks"
    /\ pos >= Len(trace)
    /\ rep' = rep + 1
    /\ pc' = "repeat"
    /\ UNCHANGED <<cfgVars, pos, counter, sent, queue, senderOpen, spawned,
                   workerVars, cacheVars, coordVars>>

\* The position the coordinator is at after the repeat loop.
AfterProducing == IF num_clients = 0 THEN "join" ELSE "spawn"

\* Mutant of DropSender: the sender is not dropped before the workers are
\* spawned.
DropSenderLate ==
    /\ mode # "single"
    /\ pc = "repeat"
    /\ rep >= Repeat
    /\ instant' = <<Len(sent)>>
    /\ pc' = AfterProducing
    /\ UNCHANGED <<cfgVars, prodVars, queue, senderOpen, spawned, workerVars,
                   cacheVars, joined, results, report, lateVars>>

\* std::mem::drop(send), then Instant::now().
DropSender ==
    /\ mode # "single"
    /\ pc = "repeat"
    /\ rep >= Repeat
    /\ senderOpen' = FALSE
    /\ instant' = <<Len(sent)>>
    /\ pc' = AfterProducing
    /\ UNCHANGED <<cfgVars, prodVars, queue, spawned, workerVars, cacheVars,
                   joined, results, report, lateVars>>

\* ------------------------------------------------------------ workers

\* Workers exist from the first spawn to the end of the joins.
WorkersRun == pc \in {"spawn", "join"}

\* One iteration of (0..num_clients).map(..): the driver and the receiver
\* are cloned and the worker is spawned; it builds its own Report.
SpawnWorker ==
    /\ pc = "spawn"
    /\ spawned < num_clients
    /\ spawned' = spawned + 1
    /\ wpc' = [wpc EXCEPT ![spawned + 1] = "recv"]
    /\ wreport' = [wreport EXCEPT ![spawned + 1] = Build]
    /\ count' = [count EXCEPT ![spawned + 1] = 0]
    /\ pc' = IF spawned + 1 = num_clients THEN "join" ELSE "spawn"
    /\ UNCHANGED <<cfgVars, prodVars, queue, senderOpen, cur, idx, log,
                   received, yields, cacheVars, coordVars>>

\* Mutant of Recv: the batch is read but stays in the channel.
RecvPeek(w) ==
    /\ WorkersRun
    /\ wpc[w] = "recv"
    /\ \/ /\ RecvReady
          /\ cur' = [cur EXCEPT ![w] = Head(queue)]
          /\ queue' = queue
          /\ idx' = [idx EXCEPT ![w] = 0]
          /\ received' = [received EXCEPT ![w] = Append(@, Head(queue).id)]
          /\ wpc' = [wpc EXCEPT ![w] = "exec"]
       \/ /\ RecvClosed
          /\ wpc' = [wpc EXCEPT ![w] = "exited"]
          /\ UNCHANGED <<queue, cur, idx, received>>
    /\ UNCHANGED <<cfgVars, pc, prodVars, senderOpen, spawned, count, wreport,
                   log, yields, cacheVars, coordVars>>

\* Mutant of Recv: the worker asks for its next batch while the commands
\* of the current one are still being processed (the processing is not
\* awaited).
RecvEarly(w) ==
    /\ WorkersRun
    /\ wpc[w] \in {"recv", "exec"}
    /\ \/ /\ RecvReady
          /\ cur' = [cur EXCEPT ![w] = Head(queue)]
          /\ queue' = Tail(queue)
          /\ idx' = [idx EXCEPT ![w] = 0]
          /\ received' = [received EXCEPT ![w] = Append(@, Head(queue).id)]
          /\ wpc' = [wpc EXCEPT ![w] = "exec"]
       \/ /\ RecvClosed
          /\ wpc' = [wpc EXCEPT ![w] = "exited"]
          /\ UNCHANGED <<queue, cur, idx, received>>
    /\ UNCHANGED <<cfgVars, pc, prodVars, senderOpen, spawned, count, wreport,
                   log, yields, cacheVars, coordVars>>

\* `while let Ok(commands) = ch.recv()`: the worker takes the batch at the
\* head of the channel, or leaves the loop and returns its Report.
Recv(w) ==
    /\ WorkersRun
    /\ wpc[w] = "recv"
    /\ \/ /\ RecvReady
          /\ cur' = [cur EXCEPT ![w] = Head(queue)]
          /\ queue' = Tail(queue)
          /\ idx' = [idx EXCEPT ![w] = 0]
          /\ received' = [received EXCEPT ![w] = Append(@, Head(queue).id)]
          /\ wpc' = [wpc EXCEPT ![w] = "exec"]
       \/ /\ RecvClosed
          /\ wpc' = [wpc EXCEPT ![w] = "exited"]
          /\ UNCHANGED <<queue, cur, idx, received>>
    /\ UNCHANGED <<cfgVars, pc, prodVars, senderOpen, spawned, count, wreport,
                   log, yields, cacheVars, coordVars>>

\* Where a worker goes when process_commands has returned: back to recv();
\* a task first counts the batch and yields every YIELD_PERIOD batches.
AfterBatch(w) ==
    IF mode = "tasks" /\ (count[w] + 1) % YIELD_PERIOD = 0
    THEN "yield" ELSE "recv"

\* The command process_commands executes next: the commands of the batch
\* in order.
NextCommand(w) == idx[w] + 1

\* Mutant of Exec: the workers record into one Report they share (the
\* first worker's) instead of each into its own.
ExecShared(w) ==
    /\ WorkersRun
    /\ wpc[w] = "exec"
    /\ LET k == NextCommand(w)
           cmd == cur[w].cmds[k]
           last == idx[w] + 1 = Len(cur[w].cmds)
       IN  /\ wreport' = [wreport EXCEPT ![1] = Record(@, cmd)]
           /\ cacheEntries' = EntriesAfter(cmd, cacheEntries)
           /\ evictions' = EvictionsAfter(cmd, cacheEntries, evictions)
           /\ log' = [log EXCEPT ![w] =
                        Append(@, [batch |-> cur[w].id, k |-> k, seq |-> cmd.seq])]
           /\ idx' = [idx EXCEPT ![w] = @ + 1]
           /\ wpc' = [wpc EXCEPT ![w] = IF last THEN AfterBatch(w) ELSE "exec"]
           /\ count' = [count EXCEPT ![w] =
                          IF last /\ mode = "tasks" THEN @ + 1 ELSE @]
    /\ UNCHANGED <<cfgVars, pc, prodVars, queue, senderOpen, spawned, cur,
                   received, yields, coordVars>>

\* One command of cache::process_commands(commands, &mut cache, &mut
\* report): it is executed against the shared backend and recorded in the
\* worker's own Report.
Exec(w) ==
    /\ WorkersRun
    /\ wpc[w] = "exec"
    /\ LET k == NextCommand(w)
           cmd == cur[w].cmds[k]
           last == idx[w] + 1 = Len(cur[w].cmds)
       IN  /\ wreport' = [wreport EXCEPT ![w] = Record(@, cmd)]
           /\ cacheEntries' = EntriesAfter(cmd, cacheEntries)
           /\ evictions' = EvictionsAfter(cmd, cacheEntries, evictions)
           /\ log' = [log EXCEPT ![w] =
                        Append(@, [batch |-> cur[w].id, k |-> k, seq |-> cmd.seq])]
           /\ idx' = [idx EXCEPT ![w] = @ + 1]
           /\ wpc' = [wpc EXCEPT ![w] = IF last THEN AfterBatch(w) ELSE "exec"]
           /\ count' = [count EXCEPT ![w] =
                          IF last /\ mode = "tasks" THEN @ + 1 ELSE @]
    /\ UNCHANGED <<cfgVars, pc, prodVars, queue, senderOpen, spawned, cur,
                   received, yields, coordVars>>

\* Mutant of Yield: when the task is resumed it processes the batch it had
\* just finished once more.
YieldReprocess(w) ==
    /\ WorkersRun
    /\ wpc[w] = "yield"
    /\ wpc' = [wpc EXCEPT ![w] = "exec"]
    /\ idx' = [idx EXCEPT ![w] = 0]
    /\ yields' = [yields EXCEPT ![w] = @ + 1]
    /\ UNCHANGED <<cfgVars, pc, prodVars, queue, senderOpen, spawned, cur,
                   count, wreport, log, received, cacheVars, coordVars>>

\* tokio::task::yield_now().await
Yield(w) ==
    /\ WorkersRun
    /\ wpc[w] = "yield"
    /\ wpc' = [wpc EXCEPT ![w] = "recv"]
    /\ yields' = [yields EXCEPT ![w] = @ + 1]
    /\ UNCHANGED <<cfgVars, pc, prodVars, queue, senderOpen, spawned, cur,
                   idx, count, wreport, log, received, cacheVars, coordVars>>

\* The worker fails (panics) while it processes a batch.
Panic(w) ==
    /\ WorkersRun
    /\ wpc[w] = "exec"
    /\ wpc' = [wpc EXCEPT ![w] = "panicked"]
    /\ UNCHANGED <<cfgVars, pc, prodVars, queue, senderOpen, spawned, cur,
                   idx, count, wreport, log, received, yields, cacheVars,
                   coordVars>>

\* ------------------------------------------------------------ coordinator

Finished(w) == wpc[w] \in {"exited", "panicked"}

\* What joining worker w yields: its Report, or the failure.
JoinResult(w) ==
    IF wpc[w] = "exited" THEN [ok |-> TRUE, report |-> wreport[w]]
    ELSE [ok |-> FALSE, report |-> Build]

\* Mutant of JoinThread: a failed join is skipped and the run goes on
\* with the other workers' Reports (filter_map(|h| h.join().ok())).
JoinThreadLenient ==
    /\ pc = "join"
    /\ mode = "threads"
    /\ joined < num_clients
    /\ Finished(joined + 1)
    /\ results' = IF JoinResult(joined + 1).ok
                  THEN Append(results, JoinResult(joined + 1))
                  ELSE results
    /\ joined' = joined + 1
    /\ UNCHANGED <<cfgVars, pc, prodVars, queue, senderOpen, spawned,
                   workerVars, cacheVars, report, instant, lateVars>>

\* h.join().expect("Failed") of the next handle, in spawn order: the
\* coordinator blocks until that thread has finished and panics when the
\* thread panicked.
JoinThread ==
    /\ pc = "join"
    /\ mode = "threads"
    /\ joined < num_clients
    /\ Finished(joined + 1)
    /\ IF JoinResult(joined + 1).ok
       THEN /\ results' = Append(results, JoinResult(joined + 1))
            /\ joined' = joined + 1
            /\ pc' = pc
       ELSE /\ pc' = "panicked"
            /\ UNCHANGED <<joined, results>>
    /\ UNCHANGED <<cfgVars, prodVars, queue, senderOpen, spawned, workerVars,
                   cacheVars, report, instant, lateVars>>

\* Mutant of JoinAll: the handles are collected without being awaited; each
\* task's Report is taken as it is at that moment.
JoinAllNoWait ==
    /\ pc = "join"
    /\ mode = "tasks"
    /\ joined < num_clients
    /\ results' = [w \in 1 .. num_clients |->
                      [ok |-> TRUE, report |-> wreport[w]]]
    /\ joined' = num_clients
    /\ UNCHANGED <<cfgVars, pc, prodVars, queue, senderOpen, spawned,
                   workerVars, cacheVars, report, instant, lateVars>>

\* futures_util::future::join_all(handles).await: resumes when every task
\* has finished, with every task's result.
JoinAll ==
    /\ pc = "join"
    /\ mode = "tasks"
    /\ joined < num_clients
    /\ \A w \in 1 .. num_clients : Finished(w)
    /\ results' = [w \in 1 .. num_clients |-> JoinResult(w)]
    /\ joined' = num_clients
    /\ UNCHANGED <<cfgVars, pc, prodVars, queue, senderOpen, spawned,
                   workerVars, cacheVars, report, instant, lateVars>>

\* reports.iter().for_each(|r| report.merge(r)): a left fold, in the order
\* of the handles.
RECURSIVE FoldMerge(_, _)
FoldMerge(acc, rs) ==
    IF rs = <<>> THEN acc
    ELSE FoldMerge(Merge(acc, Head(rs).report), Tail(rs))

\* Mutant of Elapsed: the elapsed time is taken before the joins.
ElapsedBeforeJoin == [sentBefore |-> instant[1], joined |-> 0]

\* instant.elapsed(): what the measured interval spans.
Elapsed == [sentBefore |-> instant[1], joined |-> joined]

\* Mutant of MergedReport: the fold leaves out the first worker's Report.
MergedReportSkipFirst ==
    FoldMerge([Build EXCEPT !.duration = <<Elapsed>>],
              IF results = <<>> THEN <<>> ELSE Tail(results))

\* The final Report: built from the template, given the duration, then
\* merged with every worker's Report.
MergedReport ==
    FoldMerge([Build EXCEPT !.duration = <<Elapsed>>], results)

\* The code after the joins: `elapsed`, the build and the merge loop.  In
\* run_multi_tasks the loop's r.expect("Failed") panics on a failed task.
MergeReports ==
    /\ pc = "join"
    /\ joined = num_clients
    /\ IF \E i \in 1 .. Len(results) : ~results[i].ok
       THEN /\ pc' = "panicked"
            /\ report' = report
       ELSE /\ pc' = "evict"
            /\ report' = <<MergedReport>>
    /\ UNCHANGED <<cfgVars, prodVars, queue, senderOpen, spawned, workerVars,
                   cacheVars, joined, results, instant, lateVars>>

\* The number of commands the workers have executed so far.
RECURSIVE SumLen(_, _)
SumLen(f, n) == IF n = 0 THEN 0 ELSE Len(f[n]) + SumLen(f, n - 1)

Executed == SumLen(log, LastWorker)

\* What cache_driver.eviction_counters() may return: Some(counters), or
\* None for a backend that enables no eviction listener.
EvictionCounters == {<<evictions>>, <<>>}

\* if config.is_eviction_listener_enabled() { report.add_eviction_counts(
\* cache_driver.eviction_counters().as_ref().unwrap()) }, then Ok(report).
AddEviction ==
    /\ pc = "evict"
    /\ \E enabled \in BOOLEAN :
          /\ listener' = <<enabled>>
          /\ IF enabled
             THEN \E counters \in EvictionCounters :
                    IF counters # <<>>
                    THEN /\ report' = <<AddEvictionCounts(report[1], counters[1])>>
                         /\ snapshotAt' = <<Executed>>
                         /\ pc' = "ok"
                    ELSE /\ pc' = "panicked"
                         /\ UNCHANGED <<report, snapshotAt>>
             ELSE /\ pc' = "ok"
                  /\ UNCHANGED <<report, snapshotAt>>
    /\ UNCHANGED <<cfgVars, prodVars, queue, senderOpen, spawned, workerVars,
                   cacheVars, joined, results, instant>>

\* ------------------------------------------------------------ run_single

\* Instant::now() of run_single (lib.rs:281), after the loop that
\* pre-processes all commands.
StartProcessing ==
    /\ mode = "single"
    /\ pc = "repeat"
    /\ rep >= Repeat
    /\ instant' = <<Len(sent)>>
    /\ pc' = "process"
    /\ UNCHANGED <<cfgVars, prodVars, queue, senderOpen, spawned, workerVars,
                   cacheVars, joined, results, report, lateVars>>

\* `for commands in all_commands`: the next batch, in push order.
ProcessNext ==
    /\ pc = "process"
    /\ queue # <<>>
    /\ cur' = [cur EXCEPT ![1] = Head(queue)]
    /\ queue' = Tail(queue)
    /\ idx' = [idx EXCEPT ![1] = 0]
    /\ received' = [received EXCEPT ![1] = Append(@, Head(queue).id)]
    /\ pc' = "command"
    /\ UNCHANGED <<cfgVars, prodVars, senderOpen, spawned, wpc, count,
                   wreport, log, yields, cacheVars, coordVars>>

\* Mutant of ProcessCommand: the command is executed but recorded in a
\* copy of the Report, which is lost.
ProcessCommandUnrecorded ==
    /\ pc = "command"
    /\ LET k == NextCommand(1)
           cmd == cur[1].cmds[k]
       IN  /\ cacheEntries' = EntriesAfter(cmd, cacheEntries)
           /\ evictions' = EvictionsAfter(cmd, cacheEntries, evictions)
           /\ log' = [log EXCEPT ![1] =
                        Append(@, [batch |-> cur[1].id, k |-> k, seq |-> cmd.seq])]
           /\ idx' = [idx EXCEPT ![1] = @ + 1]
           /\ pc' = IF k = Len(cur[1].cmds) THEN "process" ELSE "command"
    /\ UNCHANGED <<cfgVars, prodVars, queue, senderOpen, spawned, wpc, cur,
                   count, wreport, received, yields, coordVars>>

\* One command of cache::process_commands(commands, &mut cache_driver,
\* &mut report) in run_single (lib.rs:283).
ProcessCommand ==
    /\ pc = "command"
    /\ LET k == NextCommand(1)
           cmd == cur[1].cmds[k]
       IN  /\ wreport' = [wreport EXCEPT ![1] = Record(@, cmd)]
           /\ cacheEntries' = EntriesAfter(cmd, cacheEntries)
           /\ evictions' = EvictionsAfter(cmd, cacheEntries, evictions)
           /\ log' = [log EXCEPT ![1] =
                        Append(@, [batch |-> cur[1].id, k |-> k, seq |-> cmd.seq])]
           /\ idx' = [idx EXCEPT ![1] = @ + 1]
           /\ pc' = IF k = Len(cur[1].cmds) THEN "process" ELSE "command"
    /\ UNCHANGED <<cfgVars, prodVars, queue, senderOpen, spawned, wpc, cur,
                   count, received, yields, coordVars>>

\* process_commands panics in run_single: the panic unwinds the run.
ProcessPanic ==
    /\ pc = "command"
    /\ pc' = "panicked"
    /\ wpc' = [wpc EXCEPT ![1] = "panicked"]
    /\ UNCHANGED <<cfgVars, prodVars, queue, senderOpen, spawned, cur, idx,
                   count, wreport, log, received, yields, cacheVars,
                   coordVars>>

\* report.duration = Some(elapsed); Ok(report) (lib.rs:285-288).
ReturnSingle ==
    /\ pc = "process"
    /\ queue = <<>>
    /\ report' = <<[wreport[1] EXCEPT !.duration = <<Elapsed>>]>>
    /\ pc' = "ok"
    /\ UNCHANGED <<cfgVars, prodVars, queue, senderOpen, spawned, workerVars,
                   cacheVars, joined, results, instant, lateVars>>

\* ------------------------------------------------------------ specification

Next ==
    \/ OpenTrace
    \/ OpenFail
    \/ SendBatch
    \/ GenerateFail
    \/ EndOfTrace
    \/ DropSender
    \/ SpawnWorker
    \/ \E w \in Workers : Recv(w)
    \/ \E w \in Workers : Exec(w)
    \/ \E w \in Workers : Yield(w)
    \/ \E w \in Workers : Panic(w)
    \/ JoinThread
    \/ JoinAll
    \/ MergeReports
    \/ AddEviction
    \/ StartProcessing
    \/ ProcessNext
    \/ ProcessCommand
    \/ ProcessPanic
    \/ ReturnSingle

Spec == Init /\ [][Next]_vars

\* ------------------------------------------------------------ claims

\* The Report the run returned.
Returned == pc = "ok"

\* The run is one of the multi-worker runs.
Multi == mode \in {"threads", "tasks"}
FinalReport == report[1]

\* C1 (as amended): when the run returns a Report and at least one worker
\* was asked for, the summed operation count of the merged Report is
\* repeat x (number of trace lines), repeat being 1 when it is unset.
C1_TotalIsRepeatTimesLines ==
    (Returned /\ num_clients >= 1) =>
        OpCount(FinalReport) = Repeat * Len(trace)

\* C1 as stated: the same for every worker count, 0 included.
C1_TotalForEveryWorkerCount ==
    Returned => OpCount(FinalReport) = Repeat * Len(trace)

\* C1's case: two repeats of a three-line trace, executed by two workers
\* that both took part, and the Report returned.
C1_Witness ==
    /\ Returned
    /\ num_clients = 2
    /\ repeat = <<2>>
    /\ Len(trace) = 3
    /\ \A w \in 1 .. 2 : log[w] # <<>>
    /\ OpCount(FinalReport) = 6

\* The ids of the batches worker w has received, and of those in the
\* channel.
ReceivedIds(w) == {received[w][i] : i \in 1 .. Len(received[w])}

ChannelIds == {queue[i].id : i \in 1 .. Len(queue)}

\* The number of batches the workers have received so far.
Received == SumLen(received, LastWorker)

\* The commands worker w has executed, as <<batch, index in the batch>>.
LogSet(w) == {<<log[w][i].batch, log[w][i].k>> : i \in 1 .. Len(log[w])}

\* The batches process_commands has returned from in worker w: all it
\* received but the last one, and the last one too once it is back at recv.
Processed(w) ==
    {received[w][i] : i \in 1 .. Len(received[w]) - 1}
        \cup (IF received[w] # <<>> /\ wpc[w] \in {"recv", "yield", "exited"}
              THEN {received[w][Len(received[w])]} ELSE {})

InBatchOrder(w) ==
    \A i \in 1 .. Len(log[w]) :
        LET e == log[w][i]
        IN  IF i = 1
            THEN e.k = 1 /\ e.batch = received[w][1]
            ELSE LET d == log[w][i - 1]
                 IN  \/ e.batch = d.batch /\ e.k = d.k + 1
                     \/ /\ d.k = Len(sent[d.batch].cmds)
                        /\ e.k = 1
                        /\ \E j \in 1 .. Len(received[w]) - 1 :
                              /\ received[w][j] = d.batch
                              /\ received[w][j + 1] = e.batch

\* The batch worker w received last is the only one that may be
\* incomplete or not yet started: the log holds every command of the
\* earlier ones, and only commands of the last one besides.
PreviousBatchesComplete(w) ==
    LET n == Len(received[w])
        before == SumLen([j \in 1 .. n - 1 |-> sent[received[w][j]].cmds], n - 1)
    IN  IF n = 0 THEN log[w] = <<>>
        ELSE /\ Len(log[w]) >= before
             /\ Len(log[w]) <= before + Len(sent[received[w][n]].cmds)
             /\ \A i \in before + 1 .. Len(log[w]) :
                   log[w][i].batch = received[w][n]

\* C3: a worker executes the commands of a batch in generation order and
\* finishes the batch before it receives the next one.
C3_BatchOrder ==
    \A w \in Workers :
        /\ InBatchOrder(w)
        /\ PreviousBatchesComplete(w)
        /\ \A i \in 1 .. Len(log[w]) :
              log[w][i].seq = sent[log[w][i].batch].cmds[log[w][i].k].seq

\* C3's case: a worker has finished a two-command batch, received another
\* one and is in the middle of it, while another worker that has executed
\* commands of its own is inside a batch too.
C3_Witness ==
    \E w \in Workers, v \in Workers :
        /\ w # v
        /\ Len(received[w]) >= 2
        /\ Len(sent[received[w][1]].cmds) = 2
        /\ wpc[w] = "exec" /\ idx[w] >= 1
        /\ wpc[v] = "exec" /\ log[v] # <<>>

\* C4: a worker leaves its receive loop only when the channel is empty and
\* the sender dropped, and in that state a receive does nothing else; while
\* a batch is in the channel a receive takes a batch.
C4_ExitOnlyClosedAndEmpty ==
    [][\A w \in Workers :
         /\ (wpc[w] # "exited" /\ wpc'[w] = "exited") =>
                (wpc[w] = "recv" /\ queue = <<>> /\ ~senderOpen)
         /\ (wpc[w] = "recv" /\ wpc'[w] # "recv") =>
                IF queue = <<>> /\ ~senderOpen
                THEN wpc'[w] = "exited"
                ELSE wpc'[w] = "exec" /\ cur'[w] = Head(queue)]_vars

\* C4's case: a worker that received batches has left its loop.
C4_Witness ==
    \E w \in Workers :
        wpc[w] = "exited" /\ Len(received[w]) >= 2 /\ queue = <<>> /\ ~senderOpen

\* The commands of the batches sent so far, in send order.
RECURSIVE Flatten(_)
Flatten(bs) == IF bs = <<>> THEN <<>> ELSE Head(bs).cmds \o Flatten(Tail(bs))

\* C5 as stated, in the form a finite run refutes: a run with no generation
\* error and no worker failure does not end without a Report.
C5_EndsWithReportUnlessFailure ==
    pc = "panicked" => \E w \in Workers : wpc[w] = "panicked"

\* The part of C5 that holds: under fair scheduling every run ends, the
\* workers having left their loops; no worker waits forever on the channel.
C5_Terminates ==
    <>(/\ pc \in {"ok", "err", "panicked"}
       /\ (Multi /\ pc = "ok") =>
              \A w \in 1 .. num_clients : wpc[w] = "exited")

\* C6: the commands sent observe the sequence indices 0, 1, 2, ... in send
\* order, across batches and repeats (while the line index restarts with
\* every repeat), and the counter is the number of lines consumed.
C6_SequenceIndices ==
    LET f == Flatten(sent)
    IN  /\ \A i \in 1 .. Len(f) :
              f[i].seq = i - 1 /\ f[i].line = (i - 1) % Len(trace)
        /\ pc \in {"repeat", "chunks"} => counter = Len(f)
        /\ pc = "chunks" => counter = rep * Len(trace) + pos

\* C6's case: a batch of the second repeat was sent, whose first command
\* is line 0 again with sequence index 3.
C6_Witness ==
    /\ Len(sent) >= 3
    /\ sent[3].rep = 1
    /\ sent[3].cmds[1].line = 0
    /\ sent[3].cmds[1].seq = 3

AllEnqueued == rep = Repeat /\ Len(sent) = Repeat * ChunksPerRepeat

AllExecuted ==
    /\ queue = <<>>
    /\ Executed = Len(Flatten(sent))
    /\ \A b \in 1 .. Len(sent) : \A k \in 1 .. Len(sent[b].cmds) :
          \E w \in Workers : <<b, k>> \in LogSet(w)

\* C7 (as amended): a run that ended with an error built no Report and
\* spawned no worker; a run returns a Report only when every batch of every
\* repeat was generated and enqueued and, with at least one worker, executed.
C7_NoPartialSuccess ==
    /\ pc = "err" => report = <<>> /\ spawned = 0 /\ Executed = 0
    /\ Returned => AllEnqueued
    /\ (Returned /\ num_clients >= 1) => AllExecuted

\* C7 as stated: a Report only when every batch was executed too.
C7_ReportOnlyWhenAllExecuted ==
    Returned => AllEnqueued /\ AllExecuted

\* C7's case: the run failed at the second batch of the second repeat,
\* three batches being enqueued already.
C7_Witness ==
    pc = "err" /\ rep = 1 /\ Len(sent) = 3 /\ Len(queue) = 3

\* C8: once a worker has failed, the coordinator builds and returns no
\* Report; a Report exists only when every worker returned its own.
C8_WorkerFailureFailsRun ==
    /\ (\E w \in Workers : wpc[w] = "panicked") =>
          pc \notin {"evict", "ok"} /\ report = <<>>
    /\ (Multi /\ report # <<>>) =>
          /\ \A w \in 1 .. num_clients : wpc[w] = "exited"
          /\ Len(results) = num_clients

\* C8's case: one worker failed, another one returned a Report with
\* operations in it, and the run has failed.
C8_Witness ==
    /\ pc = "panicked"
    /\ \E w \in Workers, v \in Workers :
          /\ wpc[w] = "panicked"
          /\ wpc[v] = "exited" /\ OpCount(wreport[v]) >= 2

Perms(n) == {p \in [1 .. n -> 1 .. n] : \A i, j \in 1 .. n : p[i] = p[j] => i = j}

Counters(r) == <<r.insert_count, r.invalidation_count, r.duration>>

\* C9: the final Report is the fold of the workers' Reports in any order
\* and in any grouping, and merging two workers' Reports commutes.
C9_MergeOrderIndependent ==
    (Multi /\ pc \in {"evict", "ok"}) =>
        LET top == [Build EXCEPT !.duration = <<Elapsed>>]
            n == Len(results)
        IN  /\ \A p \in Perms(n) :
                  Counters(FoldMerge(top, [i \in 1 .. n |-> results[p[i]]]))
                      = Counters(FinalReport)
            /\ \A k \in 0 .. n :
                  Counters(Merge(FoldMerge(top, SubSeq(results, 1, k)),
                                 FoldMerge(Build, SubSeq(results, k + 1, n))))
                      = Counters(FinalReport)
            /\ \A i, j \in 1 .. n :
                  Merge(results[i].report, results[j].report)
                      = Merge(results[j].report, results[i].report)

\* C9's case: two workers returned different, non-zero Reports, which were
\* merged.
C9_Witness ==
    /\ Returned
    /\ Len(results) = 2
    /\ results[1].report # results[2].report
    /\ \A i \in 1 .. 2 : OpCount(results[i].report) >= 1
    /\ results[1].report.insert_count >= 1
    /\ results[2].report.invalidation_count >= 1

\* C10 as stated: the returned Report holds the eviction counts once when
\* the listener is enabled and none when it is disabled, and a run with
\* the listener enabled does not fail for want of the driver's counters.
C10_EvictionCountsOnce ==
    /\ Returned =>
          FinalReport.eviction_count =
              IF listener = <<TRUE>> THEN <<evictions>> ELSE <<>>
    /\ (listener = <<TRUE>> /\ pc = "panicked") =>
          \E w \in Workers : wpc[w] = "panicked"

\* C11: when the EvictionCounters snapshot has been read, every worker has
\* left its loop and was joined, the final Report was merged, and no
\* command was executed since: the commands executed when the snapshot was
\* taken are all the commands the run executes (with at least one worker,
\* every command sent), and the count in the Report is the counters' value.
C11_SnapshotAfterAllWork ==
    snapshotAt # <<>> =>
        /\ \A w \in 1 .. num_clients : wpc[w] = "exited"
        /\ joined = num_clients
        /\ Len(results) = num_clients
        /\ report # <<>>
        /\ snapshotAt[1] = Executed
        /\ num_clients >= 1 => Executed = Len(Flatten(sent))
        /\ FinalReport.eviction_count = <<evictions>>

\* C11's case: two workers executed commands, an insert into the full
\* cache evicted an entry, and the snapshot was read into the Report.
C11_Witness ==
    /\ Returned
    /\ snapshotAt # <<>>
    /\ evictions >= 1
    /\ num_clients = 2
    /\ \A w \in 1 .. 2 : log[w] # <<>>

\* run_single next to run_multi_threads with FourClients workers.
InitFour == InitWith({"single", "threads"}, {FourClients})

NextFour ==
    \/ OpenTrace
    \/ OpenFail
    \/ SendBatch
    \/ GenerateFail
    \/ EndOfTrace
    \/ DropSender
    \/ SpawnWorker
    \/ \E w \in Workers : Recv(w)
    \/ \E w \in Workers : Exec(w)
    \/ \E w \in Workers : Panic(w)
    \/ JoinThread
    \/ MergeReports
    \/ AddEviction
    \/ StartProcessing
    \/ ProcessNext
    \/ ProcessCommand
    \/ ProcessPanic
    \/ ReturnSingle

SpecFour == InitFour /\ [][NextFour]_vars

\* The lines of the trace that become a Command of the given kind.
LinesOf(kind) == Cardinality({i \in 1 .. Len(trace) : trace[i] = kind})

\* The b-th batch of a run as the trace and the repeat count alone
\* determine it: chunk (b - 1) % ChunksPerRepeat of repeat
\* (b - 1) \div ChunksPerRepeat.
BatchOfRun(b) ==
    LET r == (b - 1) \div ChunksPerRepeat
        p == ((b - 1) % ChunksPerRepeat) * BATCH_SIZE
    IN  [k \in 1 .. Min(BATCH_SIZE, Len(trace) - p) |->
            [kind |-> trace[p + k], line |-> p + k - 1,
             seq |-> r * Len(trace) + p + k - 1]]

\* C12: a run of run_single and a run of run_multi_threads with four
\* workers that return a Report return the same operation counts, which
\* the trace and the repeat count alone determine, whatever the
\* interleaving of the workers: both cut the trace into the same batches
\* and execute every command of every batch once.
C12_SingleEqualsFourWorkers ==
    Returned =>
        /\ FinalReport.insert_count = Repeat * LinesOf("GetOrInsert")
        /\ FinalReport.invalidation_count = Repeat * LinesOf("Invalidate")
        /\ Len(sent) = Repeat * ChunksPerRepeat
        /\ \A b \in 1 .. Len(sent) : sent[b].cmds = BatchOfRun(b)
        /\ AllExecuted
        /\ \A w \in Workers : Cardinality(LogSet(w)) = Len(log[w])
        /\ Executed = Repeat * Len(trace)

\* C12's case: four workers shared the four batches of two repeats of a
\* three-line trace, each executing one, and the Report was returned.
C12_Witness ==
    /\ Returned
    /\ mode = "threads"
    /\ num_clients = FourClients
    /\ Len(sent) = 4
    /\ \A w \in 1 .. FourClients : Len(received[w]) = 1
    /\ OpCount(FinalReport) = 6

\* The operation counts a multi-worker run returns, as the trace, the
\* repeat count and the worker count alone determine them.
CountOfRun(kind) == IF num_clients = 0 THEN 0 ELSE Repeat * LinesOf(kind)

\* C13: run_multi_tasks and run_multi_threads, given the same trace,
\* repeat count and worker count, enqueue the same sequence of batches,
\* let a worker leave only when the channel is closed and empty, execute
\* every command sent exactly once and return the same merged operation
\* counts, however often the tasks have yielded.
C13_TasksEqualThreads ==
    Multi =>
        /\ \A b \in 1 .. Len(sent) : sent[b].cmds = BatchOfRun(b)
        /\ \A w \in Workers :
              /\ wpc[w] = "exited" => queue = <<>> /\ ~senderOpen
              /\ Cardinality(LogSet(w)) = Len(log[w])
              /\ mode = "threads" => yields[w] = 0
        /\ Returned =>
              /\ Len(sent) = Repeat * ChunksPerRepeat
              /\ FinalReport.insert_count = CountOfRun("GetOrInsert")
              /\ FinalReport.invalidation_count = CountOfRun("Invalidate")
              /\ num_clients >= 1 => AllExecuted
              /\ Executed = CountOfRun("GetOrInsert") + CountOfRun("Invalidate")

\* C13's case: a run of two tasks returned its Report, both tasks having
\* executed commands and one of them having yielded in between.
C13_Witness ==
    /\ Returned
    /\ mode = "tasks"
    /\ num_clients = 2
    /\ \A w \in 1 .. 2 : log[w] # <<>>
    /\ \E w \in 1 .. 2 : yields[w] >= 1 /\ Len(received[w]) > YIELD_PERIOD

\* C14 as stated: with an empty trace file no batch is sent, no worker
\* receives one, a worker that has left its loop did so at its first
\* receive, the Report returned holds zero counts, and the run does not
\* fail (the file being there to open).
C14_EmptyTraceSucceeds ==
    Len(trace) = 0 =>
        /\ sent = <<>>
        /\ \A w \in Workers : received[w] = <<>> /\ log[w] = <<>>
        /\ Returned => OpCount(FinalReport) = 0
        /\ pc # "panicked"

\* The part of C14 that holds: everything but the absence of failure.
C14_EmptyTraceZeroCounts ==
    Len(trace) = 0 =>
        /\ sent = <<>>
        /\ \A w \in Workers : received[w] = <<>> /\ log[w] = <<>>
        /\ Returned => OpCount(FinalReport) = 0
        /\ pc = "panicked" => listener = <<TRUE>>

\* The commands task w has processed since its last yield point (or since
\* its start): those of the batches it received after that point.
SinceYield(w) ==
    LET since == IF wpc[w] = "yield" THEN count[w] - YIELD_PERIOD
                 ELSE count[w] - (count[w] % YIELD_PERIOD)
        recent == {received[w][j] : j \in since + 1 .. Len(received[w])}
    IN  Cardinality({i \in 1 .. Len(log[w]) : log[w][i].batch \in recent})

\* C15 as stated: a worker task never processes more than the yield
\* period's number of commands between two yield points.
C15_YieldEveryPeriodCommands ==
    mode = "tasks" => \A w \in Workers : SinceYield(w) <= YIELD_PERIOD

\* What the code does instead: `count` counts batches, so a task yields
\* after every YIELD_PERIOD batches, which hold up to BATCH_SIZE commands
\* each.
C15_YieldEveryPeriodBatches ==
    mode = "tasks" =>
        \A w \in Workers :
            /\ count[w] = IF wpc[w] \in {"exec", "panicked"}
                          THEN Len(received[w]) - 1
                          ELSE Len(received[w])
            /\ yields[w] = IF wpc[w] = "yield"
                           THEN (count[w] \div YIELD_PERIOD) - 1
                           ELSE count[w] \div YIELD_PERIOD
            /\ SinceYield(w) <= YIELD_PERIOD * BATCH_SIZE

\* C16 (as amended): the measurement starts when every batch of every
\* repeat has been enqueued and the sender dropped, before any worker is
\* spawned, and stops when the last worker has been joined: the duration
\* of the Report spans spawn to last join and leaves the producer out.
C16_DurationFromSpawnToJoin ==
    /\ instant = <<>> => spawned = 0 /\ report = <<>>
    /\ (Multi /\ instant # <<>>) =>
          /\ ~senderOpen
          /\ instant[1] = Len(sent)
          /\ instant[1] = Repeat * ChunksPerRepeat
    /\ (Multi /\ report # <<>>) =>
          FinalReport.duration =
              <<[sentBefore |-> Repeat * ChunksPerRepeat,
                 joined |-> num_clients]>>

\* C16 as stated: the measurement starts before the producer enqueues
\* the first batch and stops after the last join.
C16_DurationFromProducerStart ==
    (Multi /\ report # <<>>) =>
        FinalReport.duration = <<[sentBefore |-> 0, joined |-> num_clients]>>

\* C16's case: a run of two workers that enqueued four batches returned a
\* Report with its duration.
C16_Witness ==
    /\ Returned
    /\ Multi
    /\ num_clients = 2
    /\ Len(sent) = 4
    /\ FinalReport.duration = <<[sentBefore |-> 4, joined |-> 2]>>

\* The phases of a multi-worker run (spec.md 4.3).
Producing == pc \in {"repeat", "chunks"}

Draining == pc \in {"spawn", "join"} /\ joined < num_clients

\* C17: the producer's send is never blocked; while the sender is open
\* no worker exists and nothing was consumed; once a worker exists every
\* batch of every repeat has been enqueued and the sender is dropped, so a
\* worker at its receive finds a batch or the closed, empty channel and
\* never waits; joins come only after every worker was spawned.
C17_BufferedAheadOfConsumption ==
    Multi =>
        /\ (pc = "chunks" /\ pos < Len(trace)) => ENABLED SendBatch
        /\ Producing =>
              /\ senderOpen /\ spawned = 0 /\ joined = 0
              /\ queue = sent
              /\ \A w \in Workers : wpc[w] = "unspawned" /\ received[w] = <<>>
        /\ (spawned > 0 \/ Draining) =>
              /\ ~senderOpen
              /\ rep = Repeat /\ Len(sent) = Repeat * ChunksPerRepeat
        /\ joined > 0 => spawned = num_clients /\ ~Producing
        /\ \A w \in Workers :
              (WorkersRun /\ wpc[w] = "recv") => (RecvReady \/ RecvClosed)

\* C17's case: every batch of two repeats is in the channel, the sender
\* is dropped, and the workers, just spawned, are at their first receive.
C17_Witness ==
    /\ Multi
    /\ Draining
    /\ Len(queue) = 4 /\ queue = sent
    /\ ~senderOpen
    /\ spawned = 2
    /\ \A w \in 1 .. 2 : wpc[w] = "recv"

\* C18: in a multi-worker run a worker starts with a zeroed Report of its
\* own; a step that executes a command of worker w records it in w's
\* Report and changes no other worker's Report nor the final one; a
\* worker's Report changes in no other step; and the final Report is
\* written only by the coordinator, after every worker has left its loop
\* and was joined, in steps that change no worker's Report.
C18_ReportsNotShared ==
    [][Multi =>
         /\ \A w \in Workers :
               /\ (wpc[w] = "unspawned" /\ wpc'[w] # "unspawned") =>
                      wreport'[w] = Build
               /\ log'[w] # log[w] =>
                      /\ wpc[w] = "exec"
                      /\ wreport'[w] =
                            Record(wreport[w], cur[w].cmds[idx[w] + 1])
                      /\ \A v \in Workers \ {w} : wreport'[v] = wreport[v]
                      /\ report' = report
               /\ wreport'[w] # wreport[w] => log'[w] # log[w]
         /\ report' # report =>
               /\ pc \in {"join", "evict"}
               /\ joined = num_clients
               /\ \A w \in 1 .. num_clients : wpc[w] = "exited"
               /\ wreport' = wreport]_vars

\* C18's case: two workers are processing batches at the same time, each
\* with commands recorded in its own Report, before any merge.
C18_Witness ==
    /\ Multi
    /\ report = <<>>
    /\ \A w \in 1 .. 2 : wpc[w] = "exec" /\ OpCount(wreport[w]) >= 1
    /\ wreport[1] # wreport[2]

\* The lines of the batches first .. last of `sent`, in order.
LinesOfBatches(first, last) ==
    LET cmds == Flatten(SubSeq(sent, first, last))
    IN  [i \in 1 .. Len(cmds) |-> cmds[i].line]

\* C19: every batch sent holds the commands of a non-empty chunk of at
\* most BATCH_SIZE consecutive lines of one repeat; only the last chunk of
\* a repeat is shorter; the chunks of a repeat, concatenated in send
\* order, are the lines of the trace in file order; the channel holds the
\* batches in that order; and a run that got past the producer has
\* enqueued repeat x ceil(L / BATCH_SIZE) batches.
C19_BatchesPartitionTrace ==
    LET C == ChunksPerRepeat
    IN  /\ \A b \in 1 .. Len(sent) :
              LET cmds == sent[b].cmds
              IN  /\ sent[b].id = b
                  /\ Len(cmds) >= 1 /\ Len(cmds) <= BATCH_SIZE
                  /\ Len(cmds) < BATCH_SIZE => b % C = 0
                  /\ sent[b].rep = (b - 1) \div C
                  /\ \A k \in 1 .. Len(cmds) :
                        /\ cmds[k].line = cmds[1].line + k - 1
                        /\ cmds[k].line < Len(trace)
                        /\ cmds[k].kind = trace[cmds[k].line + 1]
        /\ \A r \in 0 .. Repeat - 1 :
              Len(sent) >= (r + 1) * C =>
                  LinesOfBatches(r * C + 1, (r + 1) * C)
                      = [i \in 1 .. Len(trace) |-> i - 1]
        /\ \A i \in 1 .. Len(queue) :
              queue[i] = sent[Len(sent) - Len(queue) + i]
        /\ pc \notin {"repeat", "chunks", "err"} => Len(sent) = Repeat * C
        /\ Len(sent) <= Repeat * C

\* C19's case: two repeats of a three-line trace were enqueued as four
\* batches, of two lines and of one line in turn.
C19_Witness ==
    /\ Len(sent) = 4
    /\ Len(trace) = 3
    /\ \A b \in {1, 3} : Len(sent[b].cmds) = BATCH_SIZE
    /\ \A b \in {2, 4} : Len(sent[b].cmds) = 1 /\ sent[b].cmds[1].line = 2
    /\ sent[3].rep = 1 /\ sent[3].cmds[1].line = 0

\* C20 as stated: a multi-worker run with num_clients = 0 over a
\* non-empty trace spawns no worker and executes nothing; once past the
\* producer it has enqueued every batch, which stays in the channel; it
\* does not fail, and the Report it returns holds zero counts.
C20_ZeroClientsSucceeds ==
    (Multi /\ num_clients = 0 /\ Len(trace) > 0) =>
        /\ spawned = 0 /\ Executed = 0
        /\ \A w \in Workers : wpc[w] = "unspawned"
        /\ queue = sent
        /\ pc \notin {"repeat", "chunks", "err"} =>
              Len(queue) = Repeat * ChunksPerRepeat
        /\ Returned => OpCount(FinalReport) = 0
        /\ pc # "panicked"

\* The part of C20 that holds: everything but the absence of failure.
C20_ZeroClientsZeroReport ==
    (Multi /\ num_clients = 0 /\ Len(trace) > 0) =>
        /\ spawned = 0 /\ Executed = 0
        /\ \A w \in Workers : wpc[w] = "unspawned"
        /\ queue = sent
        /\ pc \notin {"repeat", "chunks", "err"} =>
              Len(queue) = Repeat * ChunksPerRepeat
        /\ Returned => OpCount(FinalReport) = 0
        /\ pc = "panicked" => listener = <<TRUE>>

\* A run without workers returned over batches left in the channel.
C20_Reached ==
    /\ Returned
    /\ Multi
    /\ num_clients = 0
    /\ Len(queue) = 4
    /\ OpCount(FinalReport) = 0

FairSpec == Spec /\ WF_vars(Next)

====
